---- MODULE Spec2Model ----
(***************************************************************************)
(* Model of the store generated by the `crete` attribute macro             *)
(* (src/src/lib.rs).  The macro emits, for a struct S, one static cell and *)
(* the operations read/clone/write/get/select/set/update/update_async.     *)
(* Two expansions exist:                                                    *)
(*   "cow"     static: RwLock<Arc<S>>   (lib.rs 135-201, 261-264)           *)
(*   "inplace" static: Arc<RwLock<S>>   (lib.rs 203-257, 266-269)           *)
(* The state object is the two-field record of the specification's         *)
(* scenario (count: integer, label: text).                                  *)
(* Callers are tasks; every task runs on an executor thread, and a thread  *)
(* runs one task at a time until the task finishes its call or suspends at *)
(* an .await.  Blocking on the std RwLock keeps the thread occupied.       *)
(***************************************************************************)
EXTENDS Integers, Sequences, FiniteSets, Bags, TLC

\* ------------------------------------------------------------------ bounds
\* Total number of store operations started in one behaviour.
MaxOps == 3

\* ------------------------------------------------------------- the callers
\* Tasks 1 and 2 share executor thread 1; task 3 runs on thread 2.
Tasks == {1, 2, 3}
Threads == {1, 2}
ThreadOf(t) == IF t = 3 THEN 2 ELSE 1

NoTask == 0
NoArc == 0

\* ------------------------------------------------------- the state object
Fields == {"count", "label"}
OtherField(f) == IF f = "count" THEN "label" ELSE "count"

\* S::new() == S::default(): the value the struct's Default impl gives.
NewState == [count |-> 3, label |-> "a"]

\* What an allocation nobody owns is shown as.
Freed == [count |-> 0, label |-> ""]

\* The value a caller passes to write(), and to set() for each field.
WriteValue == [count |-> 7, label |-> "w"]
SetValue(f) == IF f = "count" THEN 5 ELSE "x"

\* Generated Field impl: select projects one field, set assigns one field.
FieldSelect(f, s) == s[f]

FieldSetBoth(f, s, v) == [count |-> IF f = "count" THEN v ELSE 0,
                          label |-> IF f = "label" THEN v ELSE ""]
FieldSetDropped(f, s, v) == s
FieldSet(f, s, v) == [s EXCEPT ![f] = v]

\* ------------------------------------------------------------- operations
ReadKinds == {"read", "clone", "get", "select"}
WriteKinds == {"write", "set", "update", "update_async"}
\* Mutators handed to update/update_async:
\*   "inc"  : count = count + 1            (a read step, then a write step)
\*   "both" : count = count + 1; label = "five"   (two assignments)
Mutators == {"inc", "both"}

CowOps ==
    [kind : {"read", "clone", "write"}, field : {"count"}, mut : {"inc"}]
    \cup [kind : {"get", "select", "set"}, field : Fields, mut : {"inc"}]
    \cup [kind : {"update"}, field : {"count"}, mut : Mutators]
    \cup [kind : {"update_async"}, field : {"count"}, mut : {"both"}]

InPlaceOps ==
    [kind : {"write"}, field : {"count"}, mut : {"inc"}]
    \cup [kind : {"get", "set"}, field : Fields, mut : {"inc"}]
    \cup [kind : {"update"}, field : {"count"}, mut : Mutators]
    \cup [kind : {"update_async"}, field : {"count"}, mut : {"both"}]

NoOp == [kind |-> "none", field |-> "count", mut |-> "inc"]

\* What a cow get transform calls on the store it is reading, and the
\* record of the suspended get while such a nested call runs.
NestedOps == {o \in CowOps : o.kind \in {"read", "write", "set", "update"}}
NoOuter == [op |-> NoOp, ver |-> 0, at |-> "idle"]

\* The mutator applied as one atomic function (its sequential meaning).
ApplyMutator(m, s) ==
    IF m = "inc" THEN [s EXCEPT !.count = s.count + 1]
    ELSE [count |-> s.count + 1, label |-> "five"]

\* The sequential meaning of a whole write-oriented operation.
ApplyOp(o, s) ==
    CASE o.kind = "write" -> WriteValue
      [] o.kind = "set" -> FieldSet(o.field, s, SetValue(o.field))
      [] OTHER -> ApplyMutator(o.mut, s)

\* ----------------------------------------------------- attribute parser
MaxTokens == 4

\* The tokens of an attribute: identifiers and the comma.
Idents == {"Clone", "clone", "Other"}
Comma == ","
Tokens == Idents \cup {Comma}

\* The attributes of at most MaxTokens tokens.
TokenSeqs == UNION {[1 .. n -> Tokens] : n \in 0 .. MaxTokens}

\* ident == "Clone": Ident compares with a str by its exact spelling.
IsCloneAnyCase(ident) == ident \in {"Clone", "clone"}
IsClone(ident) == ident = "Clone"

\* The message of a syn::Error.  syn words a failed parse of a punctuation
\* token as the word expected, a space, and the token between two
\* backquotes; that token is kept apart in `quoted` (a backquote cannot be
\* written in a string here), and is empty for every other message.
Message(text) == [text |-> text, quoted |-> ""]
NoMessage == Message("")
ExpectedToken(tok) == [text |-> "expected ", quoted |-> tok]

\* parse() entered with the attribute's tokens.
Entered(toks) ==
    [input |-> toks, rest |-> toks, clone |-> FALSE, at |-> "start",
     ret |-> "none", args |-> FALSE, msg |-> NoMessage]

\* format!("Unexpected attribute '{}'. Expected 'Clone'.", ident)
UnexpectedMsg(ident) ==
    Message("Unexpected attribute '" \o ident \o "'. Expected 'Clone'.")

\* parse() returned Ok(CreteArgs { clone: c }) for the tokens toks.
ParsedOk(toks, c) ==
    [input |-> toks, rest |-> <<>>, clone |-> c, at |-> "done",
     ret |-> "Ok", args |-> c, msg |-> NoMessage]

\* ------------------------------------------------------------------ state
VARIABLES
    variant,    \* "cow" or "inplace": which impl block the macro emitted
    heap,       \* Arc allocation id -> the S it owns
    cur,        \* the Arc in the static cell (cow); the cell's S is heap[cur]
    snap,       \* task -> the Arc a caller keeps from read()  (NoArc: none)
    loc,        \* task -> the Arc local to a running get/select/clone
    writer,     \* RwLock: the task holding the write guard, or NoTask
    readers,    \* RwLock: the read guards held, a bag of their tasks
    poisoned,   \* RwLock: the poison flag
    pc,         \* task -> position inside its current operation
    op,         \* task -> the operation it is running (or ran last)
    tmp,        \* task -> the mutator's local copy of count
    running,    \* thread -> the task occupying it, or NoTask
    result,     \* task -> what its last read-oriented operation returned
    outcome,    \* task -> "none" | "ok" | "abort" for its last operation
    startVer,   \* task -> number of commits when its operation began
    log,        \* history: the commits so far (operation kind, value left)
    serial,     \* history: the committed operations applied one after another
    nops,       \* operations started so far
    outer,      \* task -> the operation whose closure is making a nested call
    parser      \* CreteArgs::parse: its input, its locals and what it returned

vars == <<variant, heap, cur, snap, loc, writer, readers, poisoned, pc, op,
          tmp, running, result, outcome, startVer, log, serial, nops,
          outer, parser>>

\* The variables of the generated store (all but the macro's parser).
storeVars == <<variant, heap, cur, snap, loc, writer, readers, poisoned, pc,
               op, tmp, running, result, outcome, startVer, log, serial, nops,
               outer>>

ArcIds == 1 .. (2 * Cardinality(Tasks) + 2)

\* Arc::strong_count: the handles are the cell's slot, the callers' bindings
\* and the operations' locals.
StrongCountIn(c, sn, lc, id) ==
    (IF c = id THEN 1 ELSE 0)
    + Cardinality({t \in Tasks : sn[t] = id})
    + Cardinality({t \in Tasks : lc[t] = id})

StrongCount(id) == StrongCountIn(cur, snap, loc, id)

\* Arc::new: a fresh allocation (the lowest free id).
FreshArc ==
    CHOOSE id \in ArcIds :
        /\ StrongCount(id) = 0
        /\ \A j \in ArcIds : j < id => StrongCount(j) > 0

\* Dropping the last handle frees the allocation.
CollectIgnoresCell(h, c, sn, lc) ==
    [id \in ArcIds |->
        IF StrongCountIn(NoArc, sn, lc, id) = 0 THEN Freed ELSE h[id]]
Collect(h, c, sn, lc) ==
    [id \in ArcIds |->
        IF StrongCountIn(c, sn, lc, id) = 0 THEN Freed ELSE h[id]]

\* Arc::make_mut(&mut a): the allocation the returned &mut S points into.
\* A uniquely owned Arc is used in place; a shared one is duplicated.
MakeMutNeverCopies(id) == id
MakeMutTarget(id) == IF StrongCount(id) = 1 THEN id ELSE FreshArc

\* The heap after Arc::make_mut(&mut a) where a = id.
MakeMutHeap(id) == [heap EXCEPT ![MakeMutTarget(id)] = heap[id]]

\* The S currently in the cell.
CurVal == heap[cur]

\* RwLock::read() / RwLock::write() can return.
CanReadAlways == TRUE
CanRead == writer = NoTask
CanWriteAlways == TRUE
CanWrite == writer = NoTask /\ readers = EmptyBag

\* .expect("RWLock poisoned") lets the caller go on.
ExpectIgnoresPoison == TRUE
ExpectOk == ~poisoned

StoreInit ==
    /\ variant \in {"cow", "inplace"}
    /\ heap = [id \in ArcIds |-> IF id = 1 THEN NewState ELSE Freed]
    /\ cur = 1
    /\ snap = [t \in Tasks |-> NoArc]
    /\ loc = [t \in Tasks |-> NoArc]
    /\ writer = NoTask
    /\ readers = EmptyBag
    /\ poisoned = FALSE
    /\ pc = [t \in Tasks |-> "idle"]
    /\ op = [t \in Tasks |-> NoOp]
    /\ tmp = [t \in Tasks |-> 0]
    /\ running = [th \in Threads |-> NoTask]
    /\ result = [t \in Tasks |-> Freed]
    /\ outcome = [t \in Tasks |-> "none"]
    /\ startVer = [t \in Tasks |-> 1]
    /\ log = <<[kind |-> "new", field |-> "count", val |-> NewState]>>
    /\ serial = NewState
    /\ nops = 0
    /\ outer = [t \in Tasks |-> NoOuter]

\* let struct_is_clone = args.clone || derives_clone;
StructIsClone(args_clone, derives_clone) == args_clone \/ derives_clone

\* The store at run time: when the macro expanded, the attribute was parsed
\* (it was empty or `Clone`), the struct's derives were inspected, and the
\* two together chose the expansion.
Init ==
    /\ StoreInit
    /\ \E toks \in {<<>>, <<"Clone">>}, derives_clone \in BOOLEAN :
          /\ parser = ParsedOk(toks, toks = <<"Clone">>)
          /\ variant = IF StructIsClone(toks = <<"Clone">>, derives_clone)
                       THEN "cow" ELSE "inplace"

\* ---------------------------------------------------------------- actions
\* An operation returns (or unwinds): the task goes idle and frees its
\* thread.  A call made from inside a get transform returns (or unwinds)
\* into that transform instead.
Finish(t, oc, res) ==
    /\ pc' = [pc EXCEPT ![t] =
                IF outer[t] = NoOuter THEN "idle"
                ELSE IF oc = "abort" THEN "get_unwind" ELSE "get_g"]
    /\ outcome' = [outcome EXCEPT ![t] = oc]
    /\ result' = [result EXCEPT ![t] = res]
    /\ running' = IF outer[t] = NoOuter
                  THEN [running EXCEPT ![ThreadOf(t)] = NoTask]
                  ELSE running

\* A task calls one of the generated associated functions.
Begin(t) ==
    /\ pc[t] = "idle"
    /\ running[ThreadOf(t)] = NoTask
    /\ nops < MaxOps
    /\ \E o \in (IF variant = "cow" THEN CowOps ELSE InPlaceOps) :
        /\ op' = [op EXCEPT ![t] = o]
        /\ pc' = [pc EXCEPT ![t] =
                    IF o.kind \in ReadKinds THEN "lock_r" ELSE "lock_w"]
    /\ running' = [running EXCEPT ![ThreadOf(t)] = t]
    /\ outcome' = [outcome EXCEPT ![t] = "none"]
    /\ startVer' = [startVer EXCEPT ![t] = Len(log)]
    /\ nops' = nops + 1
    /\ UNCHANGED <<variant, heap, cur, snap, loc, writer, readers, poisoned,
                   tmp, result, log, serial, outer, parser>>

\* CELL.read().expect("RWLock poisoned"): blocks while a writer holds the
\* lock; on a poisoned lock the expect panics and the guard is dropped.
ReadLock(t) ==
    /\ pc[t] = "lock_r"
    /\ CanRead
    /\ IF ExpectOk
       THEN /\ readers' = readers (+) SetToBag({t})
            /\ pc' = [pc EXCEPT ![t] =
                        IF variant = "cow" THEN "read_arc" ELSE "get_f"]
            /\ UNCHANGED <<outcome, result, running>>
       ELSE /\ Finish(t, "abort", result[t])
            /\ UNCHANGED readers
    /\ UNCHANGED <<variant, heap, cur, snap, loc, writer, poisoned, op, tmp,
                   startVer, log, serial, nops, outer, parser>>

\* The RwLock's read guards once task t's read guard is dropped: at the end
\* of the statement in read(), at the end of the in-place get.
KeepReadGuard(t) == readers
DropReadGuard(t) == readers (-) SetToBag({t})

\* read(): the Arc that `.clone()` on the read guard hands out.
ReadSource(t) == cur

\* read(), second half: clone the Arc out of the guard, drop the guard.
\* For read() itself the caller keeps the Arc; get/select/clone hold it in a
\* local.
ReadArc(t) ==
    /\ pc[t] = "read_arc"
    /\ readers' = DropReadGuard(t)
    /\ IF op[t].kind = "read"
       THEN /\ snap' = [snap EXCEPT ![t] = ReadSource(t)]
            /\ heap' = Collect(heap, cur, snap', loc)
            /\ Finish(t, "ok", heap[ReadSource(t)])
            /\ UNCHANGED loc
       ELSE /\ loc' = [loc EXCEPT ![t] = ReadSource(t)]
            /\ pc' = [pc EXCEPT ![t] =
                        CASE op[t].kind = "clone" -> "clone_mk"
                          [] op[t].kind = "get" -> "get_f"
                          [] OTHER -> "select_f"]
            /\ UNCHANGED <<snap, heap, outcome, result, running>>
    /\ UNCHANGED <<variant, cur, writer, poisoned, op, tmp, startVer, log,
                   serial, nops, outer, parser>>

\* The caller lets go of the Arc it got from read().
DropSnap(t) ==
    /\ pc[t] = "idle"
    /\ snap[t] # NoArc
    /\ snap' = [snap EXCEPT ![t] = NoArc]
    /\ heap' = Collect(heap, cur, snap', loc)
    /\ UNCHANGED <<variant, cur, loc, writer, readers, poisoned, pc, op, tmp,
                   running, result, outcome, startVer, log, serial, nops,
                   outer, parser>>

\* clone(), second line: Arc::make_mut(&mut a).clone(), then a is dropped.
CloneValue(t) ==
    /\ pc[t] = "clone_mk"
    /\ LET target == MakeMutTarget(loc[t])
           heap1 == MakeMutHeap(loc[t])
       IN  /\ loc' = [loc EXCEPT ![t] = NoArc]
           /\ heap' = Collect(heap, cur, snap, loc')
           /\ Finish(t, "ok", heap1[target])
    /\ UNCHANGED <<variant, cur, snap, writer, readers, poisoned, op, tmp,
                   startVer, log, serial, nops, outer, parser>>

\* What the get transform is handed: a reference to one field of the
\* snapshot (cow) or of the locked S (in-place).
GetView(t) == IF variant = "cow" THEN heap[loc[t]] ELSE CurVal

\* get(): f(field_ref) runs and returns; the snapshot (cow) or the read
\* guard (in-place) is dropped on return.
GetTransform(t) ==
    /\ pc[t] = "get_f"
    /\ Finish(t, "ok", FieldSelect(op[t].field, GetView(t)))
    /\ loc' = [loc EXCEPT ![t] = NoArc]
    /\ heap' = Collect(heap, cur, snap, loc')
    /\ readers' = DropReadGuard(t)
    /\ UNCHANGED <<variant, cur, snap, writer, poisoned, op, tmp, startVer,
                   log, serial, nops, outer, parser>>

\* get(): f(field_ref) panics.  Unwinding drops the snapshot or the read
\* guard; a read guard does not poison the lock.
GetPanic(t) ==
    /\ pc[t] = "get_f"
    /\ Finish(t, "abort", result[t])
    /\ loc' = [loc EXCEPT ![t] = NoArc]
    /\ heap' = Collect(heap, cur, snap, loc')
    /\ readers' = DropReadGuard(t)
    /\ UNCHANGED <<variant, cur, snap, writer, poisoned, op, tmp, startVer,
                   log, serial, nops, outer, parser>>

\* get(): the transform f calls read/write/set/update of the same store.
\* The cow get holds only its cloned Arc, no guard.
GetReenter(t) ==
    /\ variant = "cow"
    /\ pc[t] = "get_f"
    /\ outer[t] = NoOuter
    /\ nops < MaxOps
    /\ \E o \in NestedOps :
        /\ op' = [op EXCEPT ![t] = o]
        /\ pc' = [pc EXCEPT ![t] =
                    IF o.kind \in ReadKinds THEN "lock_r" ELSE "lock_w"]
    /\ outer' = [outer EXCEPT ![t] = [op |-> op[t], ver |-> startVer[t],
                                      at |-> pc[t]]]
    /\ outcome' = [outcome EXCEPT ![t] = "none"]
    /\ startVer' = [startVer EXCEPT ![t] = Len(log)]
    /\ nops' = nops + 1
    /\ UNCHANGED <<variant, heap, cur, snap, loc, writer, readers, poisoned,
                   tmp, running, result, log, serial, parser>>

\* The nested call returned: the closure goes on where it made the call
\* (a cow get transform, with its field reference).
NestedReturn(t) ==
    /\ pc[t] = "get_g"
    /\ pc' = [pc EXCEPT ![t] = outer[t].at]
    /\ op' = [op EXCEPT ![t] = outer[t].op]
    /\ startVer' = [startVer EXCEPT ![t] = outer[t].ver]
    /\ outcome' = [outcome EXCEPT ![t] = "none"]
    /\ outer' = [outer EXCEPT ![t] = NoOuter]
    /\ UNCHANGED <<variant, heap, cur, snap, loc, writer, readers, poisoned,
                   tmp, running, result, log, serial, nops, parser>>

\* The nested call panicked: the panic unwinds through the closure and
\* through the operation that ran it, dropping what that operation holds
\* (a cow get holds only its Arc; a read guard is released, a write guard
\* is released and poisons the lock).
NestedUnwind(t) ==
    /\ pc[t] = "get_unwind"
    /\ pc' = [pc EXCEPT ![t] = "idle"]
    /\ op' = [op EXCEPT ![t] = outer[t].op]
    /\ startVer' = [startVer EXCEPT ![t] = outer[t].ver]
    /\ outer' = [outer EXCEPT ![t] = NoOuter]
    /\ loc' = [loc EXCEPT ![t] = NoArc]
    /\ heap' = Collect(heap, cur, snap, loc')
    /\ running' = [running EXCEPT ![ThreadOf(t)] = NoTask]
    /\ readers' = DropReadGuard(t)
    /\ writer' = (IF writer = t THEN NoTask ELSE writer)
    /\ poisoned' = (poisoned \/ writer = t)
    /\ UNCHANGED <<variant, cur, snap, tmp, result, outcome, log, serial, nops,
                   parser>>

\* The caller mutates the S that clone() returned to it.
MutateOwned(t) ==
    /\ pc[t] = "idle"
    /\ op[t].kind = "clone"
    /\ outcome[t] = "ok"
    /\ result' = [result EXCEPT ![t] = ApplyMutator("both", result[t])]
    /\ outcome' = [outcome EXCEPT ![t] = "mutated"]
    /\ UNCHANGED <<variant, heap, cur, snap, loc, writer, readers, poisoned,
                   pc, op, tmp, running, startVer, log, serial, nops, outer,
                   parser>>

\* select(): read().select_ref(field).clone(); the temporary Arc is dropped.
SelectField(t) ==
    /\ pc[t] = "select_f"
    /\ Finish(t, "ok", FieldSelect(op[t].field, heap[loc[t]]))
    /\ loc' = [loc EXCEPT ![t] = NoArc]
    /\ heap' = Collect(heap, cur, snap, loc')
    /\ UNCHANGED <<variant, cur, snap, writer, readers, poisoned, op, tmp,
                   startVer, log, serial, nops, outer, parser>>

\* CELL.write().expect("RWLock poisoned"): blocks while any guard is out;
\* on a poisoned lock the expect panics and the guard is dropped.
WriteLock(t) ==
    /\ pc[t] = "lock_w"
    /\ CanWrite
    /\ IF ExpectOk
       THEN /\ writer' = t
            /\ pc' = [pc EXCEPT ![t] =
                        CASE op[t].kind = "write" -> "write_store"
                          [] variant = "cow" -> "make_mut"
                          [] op[t].kind = "set" -> "field_set"
                          [] OTHER -> "f1"]
            /\ UNCHANGED <<outcome, result, running>>
       ELSE /\ Finish(t, "abort", result[t])
            /\ UNCHANGED writer
    /\ UNCHANGED <<variant, heap, cur, snap, loc, readers, poisoned, op, tmp,
                   startVer, log, serial, nops, outer, parser>>

\* A write-oriented operation returns normally: the write guard is dropped
\* and the cell's content is what the operation committed.
Commit(t, h, c) ==
    /\ heap' = Collect(h, c, snap, loc)
    /\ cur' = c
    /\ writer' = NoTask
    /\ log' = Append(log, [kind |-> op[t].kind, field |-> op[t].field,
                            val |-> h[c]])
    /\ serial' = ApplyOp(op[t], serial)
    /\ tmp' = [tmp EXCEPT ![t] = 0]
    /\ Finish(t, "ok", result[t])

\* write() that assigns through the Arc already in the cell.
WriteStoreThroughArc(t) ==
    /\ pc[t] = "write_store"
    /\ Commit(t, [heap EXCEPT ![cur] = WriteValue], cur)
    /\ UNCHANGED <<variant, snap, loc, readers, poisoned, op, startVer, nops,
                   outer, parser>>

\* write(): *guard = Arc::new(self) (cow) or *guard = self (in-place).
WriteStore(t) ==
    /\ pc[t] = "write_store"
    /\ IF variant = "cow"
       THEN Commit(t, [heap EXCEPT ![FreshArc] = WriteValue], FreshArc)
       ELSE Commit(t, [heap EXCEPT ![cur] = WriteValue], cur)
    /\ UNCHANGED <<variant, snap, loc, readers, poisoned, op, startVer, nops,
                   outer, parser>>

\* cow set/update/update_async: Arc::make_mut(&mut *store_write_guard).
MakeMut(t) ==
    /\ pc[t] = "make_mut"
    /\ heap' = MakeMutHeap(cur)
    /\ cur' = MakeMutTarget(cur)
    /\ pc' = [pc EXCEPT ![t] = IF op[t].kind = "set" THEN "field_set" ELSE "f1"]
    /\ UNCHANGED <<variant, snap, loc, writer, readers, poisoned, op, tmp,
                   running, result, outcome, startVer, log, serial, nops,
                   outer, parser>>

\* set(): field.set(&mut s, value), then the guard goes out of scope.
SetField(t) ==
    /\ pc[t] = "field_set"
    /\ Commit(t, [heap EXCEPT ![cur] =
                    FieldSet(op[t].field, heap[cur], SetValue(op[t].field))],
              cur)
    /\ UNCHANGED <<variant, snap, loc, readers, poisoned, op, startVer, nops,
                   outer, parser>>

\* The mutator's first step on the &mut S.  "inc" reads count; "both"
\* assigns count.  Under update_async the mutator then awaits: the task
\* leaves its thread with the write guard still held.
MutatorFirst(t) ==
    /\ pc[t] = "f1"
    /\ IF op[t].mut = "inc"
       THEN /\ tmp' = [tmp EXCEPT ![t] = heap[cur].count]
            /\ UNCHANGED heap
       ELSE /\ heap' = [heap EXCEPT ![cur].count = heap[cur].count + 1]
            /\ UNCHANGED tmp
    /\ IF op[t].kind = "update_async"
       THEN /\ pc' = [pc EXCEPT ![t] = "await"]
            /\ running' = [running EXCEPT ![ThreadOf(t)] = NoTask]
       ELSE /\ pc' = [pc EXCEPT ![t] = "f2"]
            /\ UNCHANGED running
    /\ UNCHANGED <<variant, cur, snap, loc, writer, readers, poisoned, op,
                   result, outcome, startVer, log, serial, nops, outer, parser>>

\* The work an update_async mutator awaits completes.
WorkDone(t) ==
    /\ pc[t] = "await"
    /\ pc' = [pc EXCEPT ![t] = "ready"]
    /\ UNCHANGED <<variant, heap, cur, snap, loc, writer, readers, poisoned,
                   op, tmp, running, result, outcome, startVer, log, serial,
                   nops, outer, parser>>

\* The executor polls the woken update_async future again.
Resume(t) ==
    /\ pc[t] = "ready"
    /\ running[ThreadOf(t)] = NoTask
    /\ running' = [running EXCEPT ![ThreadOf(t)] = t]
    /\ pc' = [pc EXCEPT ![t] = "f2"]
    /\ UNCHANGED <<variant, heap, cur, snap, loc, writer, readers, poisoned,
                   op, tmp, result, outcome, startVer, log, serial, nops,
                   outer, parser>>

\* The caller drops the future update_async returned while it is suspended
\* at f(s).await.  The future holds an RwLockWriteGuard, so it is not Send:
\* only its own thread can drop it, and only when that thread is not inside
\* another call.  The future's locals are dropped without a panic: the
\* write guard is released unpoisoned and the cell keeps what the mutator
\* had assigned so far.  The history records the value left; no operation
\* completed, so the serial value is unchanged.
DropFuture(t) ==
    /\ pc[t] \in {"await", "ready"}
    /\ running[ThreadOf(t)] = NoTask
    /\ writer' = NoTask
    /\ pc' = [pc EXCEPT ![t] = "idle"]
    /\ outcome' = [outcome EXCEPT ![t] = "dropped"]
    /\ tmp' = [tmp EXCEPT ![t] = 0]
    /\ log' = Append(log, [kind |-> "dropped", field |-> op[t].field,
                            val |-> heap[cur]])
    /\ UNCHANGED <<variant, heap, cur, snap, loc, readers, poisoned, op,
                   running, result, startVer, serial, nops, outer, parser>>

\* The mutator's last step, its return, and the drop of the write guard.
MutatorSecond(t) ==
    /\ pc[t] = "f2"
    /\ IF op[t].mut = "inc"
       THEN Commit(t, [heap EXCEPT ![cur].count = tmp[t] + 1], cur)
       ELSE Commit(t, [heap EXCEPT ![cur].label = "five"], cur)
    /\ UNCHANGED <<variant, snap, loc, readers, poisoned, op, startVer, nops,
                   outer, parser>>

\* The mutator panics after its first step.  Unwinding drops the write
\* guard, which poisons the lock.
MutatorPanic(t) ==
    /\ pc[t] = "f2"
    /\ poisoned' = TRUE
    /\ writer' = NoTask
    /\ Finish(t, "abort", result[t])
    /\ UNCHANGED <<variant, heap, cur, snap, loc, readers, op, tmp, startVer,
                   log, serial, nops, outer, parser>>

\* The closure running with a guard of this cell held by its own thread
\* calls the store again: a mutator (write guard held, either variant) or
\* an in-place get transform (read guard held).
HoldsGuardInClosure(t) ==
    \/ pc[t] = "f2" /\ writer = t
    \/ variant = "inplace" /\ pc[t] = "get_f" /\ BagIn(t, readers)

\* The operations such a closure calls: any associated function of the
\* expansion (a nested update_async is polled by the closure; for an async
\* mutator the call can be made by a future it awaits, which its own poll
\* drives).
ReentrantOps(t) ==
    {o \in (IF variant = "cow" THEN CowOps ELSE InPlaceOps) :
        /\ o.field = "count"
        /\ o.kind = "update" => o.mut = "inc"}

\* The nested call starts on the same thread and reaches CELL.read() or
\* CELL.write() like any other call, with the closure's guard still held.
Reenter(t) ==
    /\ HoldsGuardInClosure(t)
    /\ outer[t] = NoOuter
    /\ nops < MaxOps
    /\ \E o \in ReentrantOps(t) :
        /\ op' = [op EXCEPT ![t] = o]
        /\ pc' = [pc EXCEPT ![t] =
                    IF o.kind \in ReadKinds THEN "lock_r" ELSE "lock_w"]
    /\ outer' = [outer EXCEPT ![t] = [op |-> op[t], ver |-> startVer[t],
                                      at |-> pc[t]]]
    /\ outcome' = [outcome EXCEPT ![t] = "none"]
    /\ startVer' = [startVer EXCEPT ![t] = Len(log)]
    /\ nops' = nops + 1
    /\ UNCHANGED <<variant, heap, cur, snap, loc, writer, readers, poisoned,
                   tmp, running, result, log, serial, parser>>

TaskStep(t) ==
    \/ ReadLock(t)
    \/ ReadArc(t)
    \/ CloneValue(t)
    \/ GetTransform(t)
    \/ GetPanic(t)
    \/ GetReenter(t)
    \/ NestedReturn(t)
    \/ NestedUnwind(t)
    \/ SelectField(t)
    \/ WriteLock(t)
    \/ WriteStore(t)
    \/ MakeMut(t)
    \/ SetField(t)
    \/ MutatorFirst(t)
    \/ WorkDone(t)
    \/ Resume(t)
    \/ MutatorSecond(t)
    \/ MutatorPanic(t)

Next ==
    \E t \in Tasks :
        \/ Begin(t)
        \/ DropSnap(t)
        \/ TaskStep(t)
        \/ Reenter(t)
        \/ MutateOwned(t)
        \/ DropFuture(t)

Spec == Init /\ [][Next]_vars

\* -------------------------------------------- CreteArgs::parse, by steps
\* return Ok(CreteArgs { clone: c })
ReturnOk(c) ==
    parser' = [parser EXCEPT !.at = "done", !.ret = "Ok", !.args = c]

\* return Err(syn::Error::new(span, m)), or the Err that `?` passes on.
ReturnErr(m) ==
    parser' = [parser EXCEPT !.at = "done", !.ret = "Err", !.msg = m]

\* if input.is_empty() { return Ok(CreteArgs { clone: false }); }
IsEmptyCheck ==
    /\ parser.at = "start"
    /\ IF parser.rest = <<>>
       THEN ReturnOk(FALSE)
       ELSE parser' = [parser EXCEPT !.at = "loop"]
    /\ UNCHANGED storeVars

\* while !input.is_empty() { ... }  Ok(CreteArgs { clone })
WhileTest ==
    /\ parser.at = "loop"
    /\ IF parser.rest = <<>>
       THEN ReturnOk(parser.clone)
       ELSE parser' = [parser EXCEPT !.at = "ident"]
    /\ UNCHANGED storeVars

\* let ident: Ident = input.parse()?; and the test of ident.
ParseIdent ==
    /\ parser.at = "ident"
    /\ LET ident == Head(parser.rest)
       IN  IF ident \notin Idents
           THEN ReturnErr(Message("expected identifier"))
           ELSE IF IsClone(ident)
           THEN IF parser.clone
                THEN ReturnErr(Message("Duplicate 'Clone' attribute"))
                ELSE parser' = [parser EXCEPT !.clone = TRUE,
                                              !.rest = Tail(parser.rest),
                                              !.at = "sep"]
           ELSE ReturnErr(UnexpectedMsg(ident))
    /\ UNCHANGED storeVars

\* if !input.is_empty() { let comma: Token![,] = input.parse()?; ... }
ParseComma ==
    /\ parser.at = "sep"
    /\ IF parser.rest = <<>>
       THEN parser' = [parser EXCEPT !.at = "loop"]
       ELSE IF Head(parser.rest) # Comma
       THEN ReturnErr(ExpectedToken(Comma))
       ELSE IF Tail(parser.rest) = <<>>
       THEN parser' = [parser EXCEPT !.rest = <<>>, !.at = "done",
                                     !.ret = "Err",
                                     !.msg =
                                         Message("Trailing comma not allowed")]
       ELSE parser' = [parser EXCEPT !.rest = Tail(parser.rest),
                                     !.at = "loop"]
    /\ UNCHANGED storeVars

\* The macro is applied to a struct with some attribute.
ParseInit ==
    /\ StoreInit
    /\ parser \in {Entered(toks) : toks \in TokenSeqs}

ParseNext ==
    \/ IsEmptyCheck
    \/ WhileTest
    \/ ParseIdent
    \/ ParseComma

ParseSpec == ParseInit /\ [][ParseNext]_vars

\* Another task waits in RwLock::write(): at the lock call of a
\* write-oriented operation, also one an in-place get transform made with
\* its read guard held.
WriterQueued(t) == \E u \in Tasks \ {t} : pc[u] = "lock_w"

\* The steps of task t that scheduling guarantees.  RwLock's priority policy
\* is unspecified: read() may be kept waiting while a writer is queued, so
\* a read lock is guaranteed only when no writer waits.
FairStep(t) ==
    /\ TaskStep(t)
    /\ ~(pc[t] = "lock_r" /\ WriterQueued(t))

\* Fair scheduling: a task that can take a guaranteed step eventually takes
\* one, and awaited work eventually completes.
FairSpec == Spec /\ \A t \in Tasks : WF_vars(FairStep(t))

\* ------------------------------------------------------------- properties
\* The values left by the operations that completed (and the initial one).
Committed == {log[k].val : k \in {j \in 1 .. Len(log) : log[j].kind # "dropped"}}

\* A read-oriented operation of task t has returned v to its caller.
Returned(t) == op[t].kind \in ReadKinds /\ outcome[t] = "ok"

\* v is what a read-oriented operation o returns when it observes s.
Observes(o, v, s) ==
    IF o.kind \in {"read", "clone"} THEN v = s
    ELSE v = FieldSelect(o.field, s)

\* The write lock is free and the lock is not poisoned.
Quiescent == writer = NoTask /\ ~poisoned

\* C1 as stated - Snapshot isolation: whatever read/clone/get/select returned is the
\* initial value or a value left by a completed write-oriented operation
\* (for get/select, that field of such a value), and a snapshot a caller
\* keeps from read() always shows such a value; no partially applied update
\* is ever obtained.
C1_SnapshotIsolation ==
    \A t \in Tasks :
        /\ Returned(t) => \E s \in Committed : Observes(op[t], result[t], s)
        /\ snap[t] # NoArc => heap[snap[t]] \in Committed

\* Every operation that took the write lock and released it unpoisoned ran
\* to its end (no update_async future was dropped half way).
AllRanToEnd == \A k \in 1 .. Len(log) : log[k].kind # "dropped"

\* C2 - No lost updates: whenever no writer is inside the cell and the
\* operations so far ran to their end, the cell's value is the result of
\* applying them one after another; when every one of them was an update
\* (each mutator adds 1 to count), count is the initial count plus the
\* number of updates.
C2_NoLostUpdates ==
    (Quiescent /\ AllRanToEnd) =>
        /\ CurVal = serial
        /\ (\A k \in 2 .. Len(log) : log[k].kind \in {"update", "update_async"})
              => CurVal.count = NewState.count + (Len(log) - 1)

\* C2 witness: two updates, both committed, count grown by two.
C2_Witness ==
    /\ Quiescent
    /\ Len(log) = 3
    /\ \A k \in 2 .. 3 : log[k].kind = "update"
    /\ CurVal.count = NewState.count + 2
    /\ \A t \in Tasks : pc[t] = "idle"

\* Task t, inside cow set/update/update_async, executes Arc::make_mut while
\* some other handle to the cell's current snapshot is alive.
SharedMakeMut(t) ==
    /\ variant = "cow"
    /\ pc[t] = "make_mut"
    /\ StrongCount(cur) > 1
    /\ pc'[t] # "make_mut"

\* C3 as stated - Exclusive-ownership violation fails fast: set/update/
\* update_async that finds another reference to the current snapshot alive
\* aborts, duplicates nothing and leaves the cell's value unchanged.
C3_FailsFastOnSharedSnapshot ==
    [][\A t \in Tasks :
         SharedMakeMut(t) =>
            /\ pc'[t] = "idle"
            /\ outcome'[t] = "abort"
            /\ cur' = cur
            /\ heap' = heap]_vars

\* Task u is inside a cow set/update/update_async with the write guard held.
WriterInProgress(u) ==
    writer = u /\ pc[u] \in {"make_mut", "field_set", "f1", "f2", "await", "ready"}

\* C4 as stated - No blocking on copy-on-write reads: a read-oriented call
\* that reaches CELL.read() while another task's set/update/update_async is
\* in progress can take the read lock at once.
C4_CowReadNeverWaits ==
    \A t \in Tasks :
        (/\ variant = "cow"
         /\ pc[t] = "lock_r"
         /\ \E u \in Tasks \ {t} : WriterInProgress(u))
        => ENABLED ReadLock(t)

\* No closure is blocked in a call back into the store (the precondition of
\* C5: the closures do not themselves touch the store).
NoReentry ==
    \A u \in Tasks :
        outer[u] = NoOuter \/ (variant = "cow" /\ outer[u].op.kind = "get")

\* C5 as stated - every operation that has been called eventually returns,
\* under fair scheduling, also while an update_async mutator is suspended.
C5_EveryOperationCompletes ==
    \A t \in Tasks :
        (pc[t] # "idle" /\ NoReentry) ~> (pc[t] = "idle" \/ ~NoReentry)

\* C6 - Snapshot stability: as long as a caller keeps the Arc it got from
\* read(), the content behind it does not change, whatever any task does.
C6_SnapshotStability ==
    [][\A t \in Tasks :
         (snap[t] # NoArc /\ snap'[t] = snap[t])
            => heap'[snap[t]] = heap[snap[t]]]_vars

\* C6 witness: a caller still holds a snapshot whose content differs from
\* the cell's current value, after a set made while the snapshot was the
\* cell's current one.
C6_Witness ==
    \E t \in Tasks :
        /\ snap[t] # NoArc
        /\ snap[t] # cur
        /\ heap[snap[t]] = NewState
        /\ Len(log) = 2
        /\ log[2].kind = "set"
        /\ CurVal # NewState

\* Some write/set/update/update_async had completed when task t's current
\* operation began.
BeganAfterCompletedWrite(t) ==
    \E c \in 2 .. startVer[t] : log[c].kind \in WriteKinds

\* C7 - Read freshness: a read-oriented operation that began after a
\* write-oriented operation had completed returns what the cell held when
\* it began or what was left in it later: the value that operation (or a
\* later one) committed, or a newer content, never an earlier value.
C7_ReadFreshness ==
    \A t \in Tasks :
        (Returned(t) /\ BeganAfterCompletedWrite(t)) =>
            \E k \in startVer[t] .. Len(log) :
                Observes(op[t], result[t], log[k].val)

\* C7 witness: write completed, then an update_async future was dropped
\* half way, then a read() began: it returned the cell as the dropped
\* future left it, which is newer than the written value.
C7_Witness ==
    \E t \in Tasks :
        /\ op[t].kind = "read"
        /\ outcome[t] = "ok"
        /\ startVer[t] = 3
        /\ log[2].kind = "write"
        /\ log[3].kind = "dropped"
        /\ result[t] = log[3].val
        /\ result[t] # WriteValue

\* Task t is between acquiring the write lock and committing.
InWriteSection(t) ==
    pc[t] \in {"write_store", "make_mut", "field_set", "f1", "f2", "await",
               "ready"}

\* C8 - Writer exclusion: at most one write-oriented operation is inside its
\* critical section, that one holds the write guard, and under the in-place
\* variant no get transform runs while a writer is inside.
C8_WriterExclusion ==
    /\ Cardinality({t \in Tasks : InWriteSection(t)}) <= 1
    /\ \A t \in Tasks : InWriteSection(t) => writer = t
    /\ variant = "inplace" =>
          ~ \E t, u \in Tasks : InWriteSection(t) /\ pc[u] = "get_f"

\* C8 witness: a writer is inside its mutator while an in-place get waits
\* for the lock.
C8_Witness ==
    \E t, u \in Tasks :
        /\ variant = "inplace"
        /\ pc[t] = "f2"
        /\ pc[u] = "lock_r"
        /\ op[u].kind = "get"

\* C9 - Lock poisoning is fatal: once a mutator has panicked with the write
\* guard held, the lock stays poisoned, the cell's value and the commit log
\* never change again, and every operation that reaches the lock aborts
\* without returning a value.
C9_PoisonIsFatal ==
    [][poisoned =>
         /\ poisoned'
         /\ cur' = cur
         /\ CurVal' = CurVal
         /\ log' = log
         /\ \A t \in Tasks :
              (pc[t] \in {"lock_r", "lock_w"} /\ pc'[t] # pc[t]) =>
                  /\ pc'[t] \in {"idle", "get_unwind"}
                  /\ outcome'[t] = "abort"
                  /\ result'[t] = result[t]]_vars

\* C9 witness: the lock is poisoned with a half-applied update in the cell,
\* and a read() called afterwards has aborted.
C9_Witness ==
    \E t \in Tasks :
        /\ poisoned
        /\ CurVal \notin Committed
        /\ op[t].kind = "read"
        /\ outcome[t] = "abort"

\* C10 - Field independence: from the moment set(A, v) holds the write
\* guard until it returns, every field other than A keeps its value in the
\* cell, also when Arc::make_mut duplicates the snapshot.
C10_FieldIndependence ==
    [][\A t \in Tasks :
         (writer = t /\ op[t].kind = "set") =>
            FieldSelect(OtherField(op[t].field), CurVal')
              = FieldSelect(OtherField(op[t].field), CurVal)]_vars

\* C10 witness: a set on a duplicated snapshot has committed; its field has
\* the new value and the other field the value it had before.
C10_Witness ==
    \E t, u \in Tasks :
        /\ variant = "cow"
        /\ op[t].kind = "set"
        /\ outcome[t] = "ok"
        /\ snap[u] # NoArc
        /\ snap[u] # cur
        /\ Len(log) = 2
        /\ CurVal[op[t].field] = SetValue(op[t].field)
        /\ CurVal[OtherField(op[t].field)] = NewState[OtherField(op[t].field)]

\* C11 - Round-trip: a select (cow) or get (in-place; also cow get) of a
\* field that began when the last commit was a set of that same field, and
\* returned before any further commit, returned the value that was set.
C11_RoundTrip ==
    \A t \in Tasks :
        (/\ Returned(t)
         /\ op[t].kind \in {"get", "select"}
         /\ Len(log) = startVer[t]
         /\ log[startVer[t]].kind = "set"
         /\ log[startVer[t]].field = op[t].field)
        => result[t] = SetValue(op[t].field)

\* C11 witness: set(label, "x") committed, then a select (cow) and a get
\* (in-place) of label returned "x".
C11_Witness ==
    \E t \in Tasks :
        /\ Returned(t)
        /\ op[t].kind = (IF variant = "cow" THEN "select" ELSE "get")
        /\ op[t].field = "label"
        /\ Len(log) = 2
        /\ startVer[t] = 2
        /\ log[2].kind = "set"
        /\ log[2].field = "label"
        /\ result[t] = "x"

\* Task u's update_async mutator has started and not yet finished.
InAsyncMutator(u) ==
    op[u].kind = "update_async" /\ pc[u] \in {"f1", "await", "ready", "f2"}

\* C12 - update_async holds the write lock across suspension: from the
\* start of its mutator to its end, suspended or not, the task holds the
\* write guard, no read guard is out, and no other task that has reached
\* RwLock::read() or RwLock::write() gets past it.
C12_AsyncHoldsLockAcrossSuspension ==
    [][\A u \in Tasks :
         InAsyncMutator(u) =>
            /\ writer = u
            /\ readers = EmptyBag
            /\ \A t \in Tasks \ {u} :
                  pc[t] \in {"lock_r", "lock_w"} => pc'[t] = pc[t]]_vars

\* C12 witness: an update_async mutator is suspended, its awaited work has
\* completed, and a read() called on another thread is still waiting.
C12_Witness ==
    \E u, t \in Tasks :
        /\ op[u].kind = "update_async"
        /\ pc[u] = "ready"
        /\ ThreadOf(t) # ThreadOf(u)
        /\ op[t].kind = "read"
        /\ pc[t] = "lock_r"

\* Task t's closure called the store with the guard of its operation held:
\* a mutator of update/update_async called any operation, or the transform
\* of an in-place get called a write-oriented one.
Reentered(t) ==
    /\ outer[t] # NoOuter
    /\ \/ outer[t].op.kind \in {"update", "update_async"}
       \/ /\ variant = "inplace"
          /\ outer[t].op.kind = "get"
          /\ op[t].kind \in WriteKinds

\* C13 - Re-entrancy deadlocks: (a) the write-oriented call made by an
\* in-place get transform, and (b) any call made or awaited by an update or
\* update_async mutator, waits at the RwLock and is never granted it: the
\* task stays in that call for ever, so the outer operation never returns;
\* its guard stays held, and while it is the write guard no other task gets
\* past the lock.
C13_ReentrancyDeadlocks ==
    /\ [](\A t \in Tasks :
            Reentered(t) =>
               /\ pc[t] \in {"lock_r", "lock_w"}
               /\ writer = t \/ BagIn(t, readers)
               /\ ~ ENABLED (ReadLock(t) \/ WriteLock(t)))
    /\ [][\A t \in Tasks :
            Reentered(t) =>
               /\ pc'[t] = pc[t]
               /\ outer'[t] = outer[t]
               /\ (writer = t => writer' = t)
               /\ (BagIn(t, readers) => BagIn(t, readers'))
               /\ writer = t =>
                     \A u \in Tasks \ {t} :
                         pc[u] \in {"lock_r", "lock_w"} => pc'[u] = pc[u]]_vars

\* C13 witness: an update mutator is blocked in a read() it called with the
\* write guard held while another task waits for the lock.
C13_Witness ==
    \E t, u \in Tasks :
        /\ t # u
        /\ outer[t].op.kind = "update"
        /\ op[t].kind = (IF variant = "cow" THEN "read" ELSE "get")
        /\ pc[t] = "lock_r"
        /\ writer = t
        /\ outer[u] = NoOuter
        /\ pc[u] = "lock_r"

\* C13 second case reached: an in-place get transform is blocked in a
\* set it called with its read guard held.
C13_WitnessGet ==
    \E t \in Tasks :
        /\ variant = "inplace"
        /\ outer[t].op.kind = "get"
        /\ op[t].kind = "set"
        /\ pc[t] = "lock_w"
        /\ BagIn(t, readers)

\* C14 - Writers do not wait on copy-on-write readers: under the cow
\* variant a read guard is out only while read() copies the reference, so
\* none is held while a get transform runs or a snapshot is kept; a writer
\* that reaches RwLock::write() with no other writer inside and no such copy
\* under way takes the lock at once.
C14_WritersDoNotWaitOnCowReaders ==
    variant = "cow" =>
        /\ readers = SetToBag({t \in Tasks : pc[t] = "read_arc"})
        /\ \A u \in Tasks :
              (/\ pc[u] = "lock_w"
               /\ writer = NoTask
               /\ \A t \in Tasks : pc[t] # "read_arc")
              => ENABLED WriteLock(u)

\* C14 witness: a get transform is still running on its snapshot, and a
\* write-oriented operation that began after the get has committed a
\* different value.
C14_Witness ==
    \E t \in Tasks :
        /\ variant = "cow"
        /\ op[t].kind = "get"
        /\ pc[t] = "get_f"
        /\ Len(log) > startVer[t]
        /\ heap[loc[t]] # CurVal
        /\ writer = NoTask

\* Task t takes a step of a read-oriented operation (read/clone/get/select),
\* or mutates the value clone() returned to it.
ReadOnlyStep(t) ==
    \/ op[t].kind \in ReadKinds /\ pc[t] # "idle" /\ pc'[t] # pc[t]
    \/ outcome[t] = "ok" /\ outcome'[t] = "mutated"

\* The cell, its lock's write side and every kept snapshot are as before.
StoreUntouched ==
    /\ cur' = cur
    /\ CurVal' = CurVal
    /\ writer' = writer
    /\ poisoned' = poisoned
    /\ log' = log
    /\ \A u \in Tasks :
          (snap[u] # NoArc /\ snap'[u] = snap[u])
             => heap'[snap[u]] = heap[snap[u]]

\* C15 - Read-oriented operations have no effect on the store: no step of
\* read, get, select or clone changes the cell's value, and neither does a
\* caller mutating the value clone() gave it; kept snapshots are unchanged
\* too.
C15_ReadsLeaveStoreUnchanged ==
    [][\A t \in Tasks : ReadOnlyStep(t) => StoreUntouched]_vars

\* C15 witness: a caller has mutated the value clone() returned while the
\* cell and a snapshot kept by another task still show the cloned value.
C15_Witness ==
    \E t, u \in Tasks :
        /\ op[t].kind = "clone"
        /\ outcome[t] = "mutated"
        /\ snap[u] = cur
        /\ result[t] = ApplyMutator("both", CurVal)
        /\ CurVal = NewState

\* C16 - write is an unconditional whole-object replace: the step at which
\* write(new_value) stores and returns leaves the cell equal to new_value in
\* every field, whatever the value before and however many references to
\* the previous snapshot are alive; those references keep their content.
C16_WriteReplacesWholeObject ==
    [][\A t \in Tasks :
         (pc[t] = "write_store" /\ pc'[t] # "write_store") =>
            /\ outcome'[t] = "ok"
            /\ \A f \in Fields :
                  FieldSelect(f, CurVal') = FieldSelect(f, WriteValue)
            /\ log'[Len(log')].val = WriteValue
            /\ \A u \in Tasks :
                  snap[u] # NoArc =>
                     /\ snap'[u] = snap[u]
                     /\ heap'[snap[u]] = heap[snap[u]]]_vars

\* C16 witness: write has committed while another task keeps the previous
\* snapshot, which still shows the previous content.
C16_Witness ==
    \E t, u \in Tasks :
        /\ variant = "cow"
        /\ op[t].kind = "write"
        /\ outcome[t] = "ok"
        /\ CurVal = WriteValue
        /\ snap[u] # NoArc
        /\ snap[u] # cur
        /\ heap[snap[u]] = NewState

\* The transform passed to get by task t panics at this step.
TransformPanics(t) ==
    /\ op[t].kind = "get"
    /\ pc[t] = "get_f"
    /\ pc'[t] = "idle"
    /\ outcome'[t] = "abort"

\* C17 - A failing read does not damage the store: when the transform
\* passed to get panics, the cell's value, the commit history and the poison
\* flag are unchanged, and the get leaves nothing behind: its read guard
\* (in-place) and its snapshot (cow) are dropped and its thread is free.
C17_FailingGetLeavesStoreIntact ==
    [][\A t \in Tasks :
         TransformPanics(t) =>
            /\ StoreUntouched
            /\ poisoned' = poisoned
            /\ readers' = readers (-) SetToBag({t})
            /\ loc'[t] = NoArc
            /\ running'[ThreadOf(t)] = NoTask]_vars

\* C17 witness: an in-place get has aborted, the lock is free and not
\* poisoned, and a writer that was waiting can take it.
C17_Witness ==
    \E t, u \in Tasks :
        /\ variant = "inplace"
        /\ op[t].kind = "get"
        /\ pc[t] = "idle"
        /\ outcome[t] = "abort"
        /\ ~poisoned
        /\ readers = EmptyBag
        /\ CurVal = NewState
        /\ pc[u] = "lock_w"
        /\ ENABLED WriteLock(u)

\* Task t is inside the transform of a cow get: running it, or inside a
\* call the transform made on the store.
InCowTransform(t) ==
    /\ variant = "cow"
    /\ \/ op[t].kind = "get" /\ pc[t] = "get_f"
       \/ outer[t].op.kind = "get" /\ pc[t] # "get_unwind"

\* The call made by t's transform is waiting for the RwLock.
NestedWaiting(t) ==
    /\ variant = "cow"
    /\ outer[t].op.kind = "get"
    /\ pc[t] \in {"lock_r", "lock_w"}

\* C18 - Under the cow variant a get transform may re-enter the store
\* without deadlock: the call it makes is never kept waiting by the get
\* itself (it takes the lock as soon as no other task holds a guard);
\* while the transform lasts, the snapshot its field reference points into
\* keeps its value; the nested write commits its value to the cell, and the
\* return of get leaves that value in place.
C18_CowGetMayReenter ==
    /\ [](\A t \in Tasks :
            (/\ NestedWaiting(t)
             /\ writer \in {NoTask, t}
             /\ BagToSet(readers) \ {t} = {})
               => ENABLED (ReadLock(t) \/ WriteLock(t)))
    /\ [][\A t \in Tasks :
         /\ (InCowTransform(t) /\ InCowTransform(t)')
               => /\ loc'[t] = loc[t]
                  /\ heap'[loc[t]] = heap[loc[t]]
         /\ (outer[t] # NoOuter /\ pc[t] # "get_g" /\ pc'[t] = "get_g"
                /\ op[t].kind \in WriteKinds)
               => /\ log' = Append(log, [kind |-> op[t].kind,
                                         field |-> op[t].field,
                                         val |-> CurVal'])
                  /\ serial' = ApplyOp(op[t], serial)
         /\ (op[t].kind = "get" /\ pc[t] = "get_f" /\ pc'[t] = "idle")
               => StoreUntouched]_vars

\* C18 witness: the only task that ever ran called get on "count"; its
\* transform called set on the same field; get returned the value the field
\* had when get began, and the cell holds the value the nested set wrote.
C18_Witness ==
    \E t \in Tasks :
        /\ variant = "cow"
        /\ \A u \in Tasks \ {t} : op[u] = NoOp
        /\ op[t] = [kind |-> "get", field |-> "count", mut |-> "inc"]
        /\ pc[t] = "idle"
        /\ outcome[t] = "ok"
        /\ result[t] = FieldSelect("count", NewState)
        /\ Len(log) = 2
        /\ log[2].kind = "set"
        /\ CurVal = FieldSet("count", NewState, SetValue("count"))

\* The error the source's rules give for a rejected attribute, read off the
\* attribute's first three tokens.
RejectedWith(toks) ==
    IF toks[1] = Comma THEN Message("expected identifier")
    ELSE IF toks[1] # "Clone" THEN UnexpectedMsg(toks[1])
    ELSE IF toks[2] # Comma THEN ExpectedToken(Comma)
    ELSE IF Len(toks) = 2 THEN Message("Trailing comma not allowed")
    ELSE IF toks[3] = "Clone" THEN Message("Duplicate 'Clone' attribute")
    ELSE IF toks[3] = Comma THEN Message("expected identifier")
    ELSE UnexpectedMsg(toks[3])

\* C19 - The attribute parser accepts exactly two token sequences: the
\* empty one (clone = false) and the single identifier Clone (clone = true).
\* Every other sequence of identifiers and commas returns an error and no
\* arguments: 'Duplicate' for a second Clone, 'Unexpected attribute' for
\* any other identifier, 'Trailing comma not allowed' for a comma with
\* nothing after it, and a parse error for a missing comma or identifier.
C19_ParserAcceptsExactlyTwo ==
    parser.at = "done" =>
        /\ parser.ret \in {"Ok", "Err"}
        /\ parser.ret = "Ok" <=> parser.input \in {<<>>, <<"Clone">>}
        /\ parser.ret = "Ok" =>
              /\ parser.args = (parser.input = <<"Clone">>)
              /\ parser.msg = NoMessage
        /\ parser.ret = "Err" =>
              /\ parser.args = FALSE
              /\ parser.msg = RejectedWith(parser.input)

\* C19 witness: parse() has rejected `Clone, Clone` as a duplicate.
C19_Witness ==
    /\ parser.at = "done"
    /\ parser.input = <<"Clone", Comma, "Clone">>
    /\ parser.ret = "Err"
    /\ parser.msg = Message("Duplicate 'Clone' attribute")

====
